---- MODULE Spec2Model ----
(***************************************************************************)
(* Daily market brief cloud function (src/main.py).                        *)
(*                                                                         *)
(* One HTTP invocation of generate_market_brief_http is modelled as a      *)
(* state machine: the orchestrator generate_market_brief reads the clock   *)
(* twice, asks the generative service for tickers, verifies each ticker    *)
(* against the market-data service, asks for the report, extracts the      *)
(* grounding sources and returns; the entry point then publishes to the    *)
(* object store and answers.  The external services are the environment:   *)
(* every answer they can give is drawn from a bounded set.                 *)
(*                                                                         *)
(* Dates are proleptic Gregorian ordinals as in Python's datetime (day 1   *)
(* is Monday, January 1 of year 1).  Numbers coming from the market-data   *)
(* service are fixed-point with two decimals (hundredths).  A string    *)
(* produced by strftime is the sequence of its tokens.                     *)
(***************************************************************************)
EXTENDS Integers, Sequences, FiniteSets, TLC

VARIABLES
    clock,            \* the date datetime.now() returns, as an ordinal
    ticks,            \* how many midnights have passed since the request arrived
    date_arg,         \* the date argument of the date helpers (NoDate = None)
    pc,               \* position of the invocation
    api_key,          \* whether GOOGLE_API_KEY is set in the environment
    target_date,      \* local target_date of generate_market_brief
    display_date,     \* local display_date of generate_market_brief
    tickers,          \* local tickers: the value json.loads returned
    idx,              \* position of the verification loop in tickers
    data,             \* outcome of the latest fetch_finnhub_metrics call
    verified_movers,  \* local verified_movers
    mega_cap_movers,  \* local mega_cap_movers
    finnhub_log,      \* the exchanges with the market-data service, in order
    prompt,           \* local prompt: the synthesis request
    response,         \* local response: the synthesis answer
    sources,          \* local sources
    brief_data,       \* what generate_market_brief returned
    storage_result,   \* what save_to_cloud_storage returned
    http_response,    \* what generate_market_brief_http answered
    calls             \* requests made to each external service

vars == << clock, ticks, date_arg, pc, api_key, target_date, display_date,
           tickers, idx, data, verified_movers, mega_cap_movers, finnhub_log,
           prompt, response, sources, brief_data, storage_result, http_response, calls >>

----------------------------------------------------------------------------
(* Bounds of the model *)

NumDays == 400
NumStartDays == 7
NumExplicitDates == 7
MaxTicks == 1
MaxTickers == 2
MaxChunks == 2

----------------------------------------------------------------------------
(* The calendar of Python's datetime: date.toordinal, date.weekday,        *)
(* date - timedelta(days=n) and the fields strftime reads.                 *)

NoDate == 0

is_leap(y) == (y % 4 = 0) /\ ((y % 100 # 0) \/ (y % 400 = 0))

days_before_year(y) ==
    LET p == y - 1 IN p * 365 + (p \div 4) - (p \div 100) + (p \div 400)

days_in_month(y, m) ==
    IF m = 2 THEN (IF is_leap(y) THEN 29 ELSE 28)
    ELSE IF m \in {4, 6, 9, 11} THEN 30 ELSE 31

RECURSIVE days_before_month(_, _)
days_before_month(y, m) ==
    IF m = 1 THEN 0 ELSE days_before_month(y, m - 1) + days_in_month(y, m - 1)

ymd2ord(y, m, d) == days_before_year(y) + days_before_month(y, m) + d

FirstDay == ymd2ord(2027, 12, 27)

Days == FirstDay .. (FirstDay + NumDays - 1)

Years == 2027 .. (2029 + (NumDays \div 365))

ord2ymd(n) ==
    LET y == CHOOSE yy \in Years :
                 days_before_year(yy) < n /\ n <= days_before_year(yy + 1)
        k == n - days_before_year(y)
        m == CHOOSE mm \in 1..12 :
                 days_before_month(y, mm) < k
                 /\ k <= days_before_month(y, mm) + days_in_month(y, mm)
    IN  [year |-> y, month |-> m, day |-> k - days_before_month(y, m)]

weekday(n) == (n + 6) % 7

timedelta_sub(n, days) == n - days

WeekdayName ==
    << "Monday", "Tuesday", "Wednesday", "Thursday", "Friday", "Saturday", "Sunday" >>

MonthName ==
    << "January", "February", "March", "April", "May", "June", "July",
       "August", "September", "October", "November", "December" >>

Digit == << "0", "1", "2", "3", "4", "5", "6", "7", "8", "9" >>

DigitOf(k) == Digit[k + 1]

(* strftime('%A, %B %d, %Y'): %A and %B are the full names, %d is the day  *)
(* of the month as a zero-padded decimal of two digits, %Y the year.       *)
strftime_long(n) ==
    LET f == ord2ymd(n) IN
    << WeekdayName[weekday(n) + 1], ", ", MonthName[f.month], " ",
       DigitOf(f.day \div 10), DigitOf(f.day % 10), ", ",
       DigitOf(f.year \div 1000), DigitOf((f.year \div 100) % 10),
       DigitOf((f.year \div 10) % 10), DigitOf(f.year % 10) >>

get_formatted_date(date, now) ==
    LET d == IF date = NoDate THEN now ELSE date IN strftime_long(d)

prev_sunday_off_by_one(date) ==
    LET day == weekday(date) IN
    IF day = 0 THEN timedelta_sub(date, 3)
    ELSE IF day = 6 THEN timedelta_sub(date, 1)
    ELSE IF day = 5 THEN timedelta_sub(date, 1)
    ELSE timedelta_sub(date, 1)

previous_trading_day(date) ==
    LET day == weekday(date) IN
    IF day = 0 THEN timedelta_sub(date, 3)
    ELSE IF day = 6 THEN timedelta_sub(date, 2)
    ELSE IF day = 5 THEN timedelta_sub(date, 1)
    ELSE timedelta_sub(date, 1)

get_previous_trading_day_str(date, now) ==
    LET d == IF date = NoDate THEN now ELSE date
    IN  strftime_long(previous_trading_day(d))

NoString == << >>

----------------------------------------------------------------------------
(* Values of the market-data service's JSON fields.  dict.get returns None *)
(* for a missing key; a number is kept in hundredths; a field may also be  *)
(* a string, for which ordering against a number and abs() raise.          *)

MEGA_CAP_MILLIONS == 200000
MIN_MOVE_PERCENT == 2

Hundredths(x) == x * 100

Missing == [k |-> "none", v |-> 0]
Str == [k |-> "str", v |-> 0]
Num(h) == [k |-> "num", v |-> h]

Truthy(x) == (x.k = "str") \/ (x.k = "num" /\ x.v # 0)

Abs(x) == IF x < 0 THEN -x ELSE x

Returned(val) == [raised |-> FALSE, value |-> val]
Raised == [raised |-> TRUE, value |-> << >>]

None == << >>

----------------------------------------------------------------------------
(* fetch_finnhub_metrics *)

Tickers == {"A", "B"}

Caps == { Missing, Str, Num(0), Num(Hundredths(MEGA_CAP_MILLIONS) - 1),
          Num(Hundredths(MEGA_CAP_MILLIONS)), Num(Hundredths(MEGA_CAP_MILLIONS) + 1) }

Changes == { Missing, Str, Num(0) } \cup
           { Num(s * (Hundredths(MIN_MOVE_PERCENT) + e)) : s \in {-1, 1}, e \in {-1, 0, 1} }

Prices == { Missing, Num(0), Num(15000) }

QuoteRaises ==
    [quote_raises |-> TRUE, profile_raises |-> FALSE, c |-> Missing, dp |-> Missing,
     marketCapitalization |-> Missing, has_name |-> FALSE]

ProfileRaises ==
    [quote_raises |-> FALSE, profile_raises |-> TRUE, c |-> Num(15000), dp |-> Num(250),
     marketCapitalization |-> Missing, has_name |-> FALSE]

Answer(c, dp, cap, n) ==
    [quote_raises |-> FALSE, profile_raises |-> FALSE, c |-> c, dp |-> dp,
     marketCapitalization |-> cap, has_name |-> n]

(* every answer the two lookups can give for one ticker *)
FinnhubAnswers ==
    { QuoteRaises, ProfileRaises } \cup
    { Answer(c, dp, cap, n) : c \in Prices, dp \in Changes, cap \in Caps, n \in BOOLEAN }

(* the answers the verification loop is run against *)
BatchAnswers ==
    { QuoteRaises,
      Answer(Num(0), Num(250), Num(Hundredths(MEGA_CAP_MILLIONS)), TRUE),
      Answer(Num(15000), Num(250), Missing, TRUE),
      Answer(Num(15000), Num(-Hundredths(MIN_MOVE_PERCENT)),
             Num(Hundredths(MEGA_CAP_MILLIONS)), TRUE),
      Answer(Num(15000), Num(Hundredths(MIN_MOVE_PERCENT) - 1),
             Num(Hundredths(MEGA_CAP_MILLIONS)), TRUE),
      Answer(Num(15000), Missing, Num(Hundredths(MEGA_CAP_MILLIONS)), FALSE) }

flag_exclusive(market_cap, price_change) ==
    IF market_cap.k # "num" THEN Raised
    ELSE IF ~(market_cap.v > Hundredths(MEGA_CAP_MILLIONS)) THEN Returned(FALSE)
    ELSE IF price_change.k # "num" THEN Raised
    ELSE Returned(Abs(price_change.v) > Hundredths(MIN_MOVE_PERCENT))

(* market_cap >= 200000 and abs(price_change) >= 2.0, left to right with   *)
(* short circuit; a non-number operand raises TypeError                    *)
isMegaCapMover(market_cap, price_change) ==
    IF market_cap.k # "num" THEN Raised
    ELSE IF ~(market_cap.v >= Hundredths(MEGA_CAP_MILLIONS)) THEN Returned(FALSE)
    ELSE IF price_change.k # "num" THEN Raised
    ELSE Returned(Abs(price_change.v) >= Hundredths(MIN_MOVE_PERCENT))

(* the body of the try block *)
fetch_try(ticker, r) ==
    IF r.quote_raises \/ r.profile_raises THEN Raised
    ELSE IF ~Truthy(r.c) \/ ~Truthy(r.marketCapitalization) THEN Returned(None)
    ELSE LET market_cap == r.marketCapitalization
             price_change == r.dp
             flag == isMegaCapMover(market_cap, price_change)
         IN  IF flag.raised THEN Raised
             ELSE Returned(<< [ticker |-> ticker,
                               name |-> IF r.has_name THEN "Corp" ELSE ticker,
                               marketCap |-> market_cap,
                               priceChange |-> price_change,
                               isMegaCapMover |-> flag.value] >>)

fetch_uncaught(ticker, r) == fetch_try(ticker, r)

(* try: ... except Exception: return None *)
fetch_finnhub_metrics(ticker, r) ==
    LET t == fetch_try(ticker, r) IN IF t.raised THEN Returned(None) ELSE t

----------------------------------------------------------------------------
(* The discovery answer: discovery_resp.text is a sequence of tokens, a    *)
(* markdown fence, a newline, or a run of other text that is or is not     *)
(* JSON.  json.loads accepts any JSON value, not only a list.              *)

RECURSIVE SeqsUpTo(_, _)
SeqsUpTo(S, n) ==
    IF n = 0 THEN { << >> }
    ELSE LET shorter == SeqsUpTo(S, n - 1)
         IN  shorter \cup { Append(q, x) : q \in { t \in shorter : Len(t) = n - 1 }, x \in S }

Json(kind, items) == [kind |-> kind, items |-> items]

NoJson == Json("unset", << >>)

JsonValues ==
    { Json("list", q) : q \in SeqsUpTo(Tickers, MaxTickers) } \cup
    { Json("object", << "A" >>), Json("string", << "A", "B" >>),
      Json("number", << >>), Json("null", << >>) }

Tok(t, j) == [tok |-> t, json |-> j]

FenceJson == Tok("fence_json", NoJson)
Fence == Tok("fence", NoJson)
Newline == Tok("nl", NoJson)
Prose == Tok("text", Json("invalid", << >>))
Payload(j) == Tok("text", j)

Fenced(j) == << FenceJson, Newline, Payload(j), Newline, Fence >>

DiscoveryTexts ==
    { << Payload(j) >> : j \in JsonValues } \cup
    { Fenced(j) : j \in JsonValues } \cup
    { << >>, << Prose >>, << Prose, Newline >> \o Fenced(Json("list", << "A" >>)) }

IsNotFenceJson(t) == t.tok # "fence_json"
IsNotFence(t) == t.tok # "fence"

RECURSIVE lstrip(_)
lstrip(text) ==
    IF text # << >> /\ Head(text).tok = "nl" THEN lstrip(Tail(text)) ELSE text

RECURSIVE rstrip(_)
rstrip(text) ==
    IF text # << >> /\ text[Len(text)].tok = "nl"
    THEN rstrip(SubSeq(text, 1, Len(text) - 1)) ELSE text

(* text.replace(fence_json, '').replace(fence, '').strip() *)
cleaned(text) == rstrip(lstrip(SelectSeq(SelectSeq(text, IsNotFenceJson), IsNotFence)))

(* json.loads: one JSON value and nothing else, or ValueError *)
json_loads(text) ==
    IF Len(text) = 1 /\ text[1].tok = "text" /\ text[1].json.kind # "invalid"
    THEN Returned(text[1].json)
    ELSE Raised

(* for ticker in tickers: a list gives its items, a dict its keys, a str   *)
(* its characters; a number or None raises TypeError                       *)
iterable(j) == j.kind \in {"list", "object", "string"}

----------------------------------------------------------------------------
(* The synthesis answer and the extraction of the grounding sources *)

Chunk(kind, uri, title) == [kind |-> kind, uri |-> uri, title |-> title]

(* a chunk with web.uri and web.title; a chunk without web; a chunk whose  *)
(* web lacks uri or title; a chunk whose uri cannot be a dict key          *)
Chunks ==
    { Chunk("web", "u1", "t1"), Chunk("web", "u1", "t2"), Chunk("web", "u2", "t1"),
      Chunk("noweb", "", ""), Chunk("partial", "u2", ""), Chunk("unhashable", "", "") }

Metadata(kind, chunks) == [kind |-> kind, chunks |-> chunks]

(* no candidates, grounding_metadata None, no grounding_chunks attribute,  *)
(* grounding_chunks None (not iterable), or a list of chunks               *)
Metadatas ==
    { Metadata(k, << >>) : k \in {"no_candidates", "none", "no_chunks", "not_iterable"} }
    \cup { Metadata("chunks", q) : q \in SeqsUpTo(Chunks, MaxChunks) }

(* "<name> (<sign><change>%)": a plus sign for a rise, the change with two *)
(* decimals                                                                *)
mover_str(m) ==
    [name |-> m.name, plus |-> m.priceChange.v > 0, change |-> m.priceChange.v]

(* the prompt: both dates and, when there are movers, the mandatory context *)
build_prompt(display, target, movers) ==
    [display_date |-> display, target_date |-> target,
     mandatory_context |-> movers # << >>,
     movers_str |-> [i \in 1..Len(movers) |-> mover_str(movers[i])]]

NoPrompt == build_prompt(NoString, NoString, << >>)

NoResponse == [raises |-> FALSE, metadata |-> Metadata("unset", << >>)]

SynthesisAnswers ==
    { [raises |-> TRUE, metadata |-> Metadata("none", << >>)] } \cup
    { [raises |-> FALSE, metadata |-> m] : m \in Metadatas }

Entry(uri, title) == [uri |-> uri, title |-> title]

HasKey(map, uri) == \E i \in 1..Len(map) : map[i].uri = uri

dict_set_first_wins(map, uri, title) ==
    IF HasKey(map, uri) THEN map ELSE Append(map, Entry(uri, title))

(* source_map[uri] = title on a dict, which keeps insertion order *)
dict_set(map, uri, title) ==
    IF HasKey(map, uri)
    THEN [i \in 1..Len(map) |-> IF map[i].uri = uri THEN Entry(uri, title) ELSE map[i]]
    ELSE Append(map, Entry(uri, title))

(* the for loop over grounding_chunks, from chunk i on *)
RECURSIVE source_loop(_, _, _)
source_loop(chunks, i, source_map) ==
    IF i > Len(chunks) THEN Returned(source_map)
    ELSE LET chunk == chunks[i] IN
         IF chunk.kind = "unhashable" THEN Raised
         ELSE IF chunk.kind = "web"
              THEN source_loop(chunks, i + 1, dict_set(source_map, chunk.uri, chunk.title))
              ELSE source_loop(chunks, i + 1, source_map)

(* the body of the try block *)
extract_try(resp) ==
    LET md == resp.metadata IN
    IF md.kind \in {"no_candidates", "none", "no_chunks"} THEN Returned(<< >>)
    ELSE IF md.kind = "not_iterable" THEN Raised
    ELSE source_loop(md.chunks, 1, << >>)

(* sources = []; try: ... except Exception: print *)
extract_sources(resp) ==
    LET t == extract_try(resp) IN IF t.raised THEN Returned(<< >>) ELSE t

----------------------------------------------------------------------------
(* Results *)

NoData == Returned(None)

NoStorage == [present |-> FALSE, success |-> FALSE, error |-> ""]

NoCalls == [discovery |-> 0, finnhub |-> 0, synthesis |-> 0, storage |-> 0]

Brief(status, error, content, srcs, display, target) ==
    [status |-> status, error |-> error, content |-> content, sources |-> srcs,
     displayDate |-> display, targetDate |-> target, storage |-> NoStorage]

NoBrief == Brief("none", "", "", << >>, NoString, NoString)

(* the dict of the except branch: status, error and timestamp only *)
ErrorResult(msg) == Brief("error", msg, "", << >>, NoString, NoString)

NoHttp ==
    [code |-> 0, status |-> "none", message |-> "", displayDate |-> NoString,
     targetDate |-> NoString, sources |-> << >>, storage |-> NoStorage]

ApiKeyError == "GOOGLE_API_KEY environment variable not set"
ParseError == "Could not parse ticker candidates"
NotIterableError == "object is not iterable"
DiscoveryError == "discovery request failed"
SynthesisError == "synthesis request failed"
FetchError == "market data request failed"
SourcesError == "source extraction failed"
SuccessMessage == "Market brief generated successfully"

(* the body of the try block: the upload succeeds or raises *)
save_try(brief, write_ok) ==
    IF write_ok THEN Returned([present |-> TRUE, success |-> TRUE, error |-> ""])
    ELSE Raised

save_uncaught(brief, write_ok) == save_try(brief, write_ok)

(* try: ... except Exception: return {'success': False, 'error': str(e)} *)
save_to_cloud_storage(brief, write_ok) ==
    LET t == save_try(brief, write_ok) IN
    IF t.raised THEN Returned([present |-> TRUE, success |-> FALSE, error |-> "upload failed"])
    ELSE t

publish_always(brief) == TRUE

(* if brief_data.get('status') == 'success' *)
should_publish(brief) == brief.status = "success"

status_code(brief) == IF brief.status = "success" THEN 200 ELSE 500

(* the body and status code the entry point returns *)
http_result(brief) ==
    [code |-> status_code(brief),
     status |-> brief.status,
     message |-> IF brief.error # "" THEN brief.error ELSE SuccessMessage,
     displayDate |-> brief.displayDate,
     targetDate |-> brief.targetDate,
     sources |-> brief.sources,
     storage |-> brief.storage]

(* what the platform answers when the entry point itself raises *)
Unhandled == [NoHttp EXCEPT !.code = 500, !.status = "unhandled"]

keep_every_quote(m) == TRUE

(* if m['isMegaCapMover'] *)
IsMover(m) == m.isMegaCapMover

----------------------------------------------------------------------------
(* One invocation of generate_market_brief_http *)

Init ==
    /\ clock \in FirstDay .. (FirstDay + NumStartDays - 1)
    /\ ticks = 0
    /\ date_arg = NoDate
    /\ pc = "start"
    /\ api_key \in BOOLEAN
    /\ target_date = NoString
    /\ display_date = NoString
    /\ tickers = NoJson
    /\ idx = 0
    /\ data = NoData
    /\ verified_movers = << >>
    /\ mega_cap_movers = << >>
    /\ finnhub_log = << >>
    /\ prompt = NoPrompt
    /\ response = NoResponse
    /\ sources = << >>
    /\ brief_data = NoBrief
    /\ storage_result = NoStorage
    /\ http_response = NoHttp
    /\ calls = NoCalls

env == << clock, ticks, date_arg, api_key >>
dates == << target_date, display_date >>
verification == << idx, data, verified_movers, mega_cap_movers, finnhub_log >>
synthesis == << prompt, response, sources >>
entry == << storage_result, http_response >>

(* the locals of the verification step, not read after the prompt is built *)
DropVerification ==
    /\ tickers' = NoJson
    /\ idx' = 0
    /\ data' = NoData
    /\ verified_movers' = << >>
    /\ mega_cap_movers' = << >>
    /\ finnhub_log' = << >>

(* generate_market_brief returns: only the result outlives its locals *)
ReturnBrief(result) ==
    /\ brief_data' = result
    /\ pc' = "returned"
    /\ target_date' = NoString
    /\ display_date' = NoString
    /\ DropVerification
    /\ prompt' = NoPrompt
    /\ response' = NoResponse
    /\ sources' = << >>

(* midnight passes *)
Tick ==
    /\ pc \notin {"done", "date", "fetch", "fetched"}
    /\ ticks < MaxTicks
    /\ clock' = clock + 1
    /\ ticks' = ticks + 1
    /\ UNCHANGED << date_arg, pc, api_key, dates, tickers, verification, synthesis,
                    brief_data, entry, calls >>

(* the request arrives; the credential is read *)
Invoke ==
    /\ pc = "start"
    /\ IF ~api_key
       THEN ReturnBrief(ErrorResult(ApiKeyError))
       ELSE /\ pc' = "target_date"
            /\ UNCHANGED << dates, tickers, verification, synthesis, brief_data >>
    /\ UNCHANGED << env, entry, calls >>

(* target_date = get_previous_trading_day_str() *)
ReadTargetDate ==
    /\ pc = "target_date"
    /\ target_date' = get_previous_trading_day_str(date_arg, clock)
    /\ pc' = "display_date"
    /\ UNCHANGED << env, display_date, tickers, verification, synthesis, brief_data,
                    entry, calls >>

(* display_date = get_formatted_date() *)
ReadDisplayDate ==
    /\ pc = "display_date"
    /\ display_date' = get_formatted_date(date_arg, clock)
    /\ pc' = "discovery"
    /\ UNCHANGED << env, target_date, tickers, verification, synthesis, brief_data,
                    entry, calls >>

DiscoveryAnswers ==
    { [raises |-> TRUE, text |-> << >>] } \cup
    { [raises |-> FALSE, text |-> t] : t \in DiscoveryTexts }

(* step 1: the discovery request, the parse, and the entry of the loop *)
Discover ==
    /\ pc = "discovery"
    /\ calls' = [calls EXCEPT !.discovery = @ + 1]
    /\ \E a \in DiscoveryAnswers :
          IF a.raises THEN ReturnBrief(ErrorResult(DiscoveryError))
          ELSE LET parsed == json_loads(cleaned(a.text)) IN
               IF parsed.raised THEN ReturnBrief(ErrorResult(ParseError))
               ELSE IF ~iterable(parsed.value)
                    THEN ReturnBrief(ErrorResult(NotIterableError))
                    ELSE /\ tickers' = parsed.value
                         /\ idx' = 1
                         /\ pc' = "verify"
                         /\ UNCHANGED << dates, data, verified_movers, mega_cap_movers,
                                         finnhub_log, synthesis, brief_data >>
    /\ UNCHANGED << env, entry >>

(* step 2, one iteration: data = fetch_finnhub_metrics(ticker); if data: append *)
FetchTicker ==
    /\ pc = "verify"
    /\ idx <= Len(tickers.items)
    /\ calls' = [calls EXCEPT !.finnhub = @ + 1]
    /\ \E r \in BatchAnswers :
          LET ticker == tickers.items[idx]
              out == fetch_finnhub_metrics(ticker, r)
          IN  IF out.raised THEN ReturnBrief(ErrorResult(FetchError))
              ELSE /\ data' = out
                   /\ finnhub_log' = Append(finnhub_log, [ticker |-> ticker, answer |-> r])
                   /\ verified_movers' =
                         IF out.value # None THEN Append(verified_movers, out.value[1])
                         ELSE verified_movers
                   /\ idx' = idx + 1
                   /\ UNCHANGED << pc, dates, tickers, mega_cap_movers, synthesis,
                                   brief_data >>
    /\ UNCHANGED << env, entry >>

(* mega_cap_movers = [m for m in verified_movers if m['isMegaCapMover']] *)
FilterMovers ==
    /\ pc = "verify"
    /\ idx > Len(tickers.items)
    /\ mega_cap_movers' = SelectSeq(verified_movers, IsMover)
    /\ pc' = "synthesis"
    /\ UNCHANGED << env, dates, tickers, idx, data, verified_movers, finnhub_log,
                    synthesis, brief_data, entry, calls >>

(* step 3: the prompt is built from the movers and the dates; the tickers  *)
(* and the movers are not read again                                       *)
BuildPrompt ==
    /\ pc = "synthesis"
    /\ prompt' = build_prompt(display_date, target_date, mega_cap_movers)
    /\ pc' = "request"
    /\ DropVerification
    /\ UNCHANGED << env, dates, response, sources, brief_data, entry, calls >>

(* step 3: the synthesis request *)
Synthesize ==
    /\ pc = "request"
    /\ calls' = [calls EXCEPT !.synthesis = @ + 1]
    /\ \E a \in SynthesisAnswers :
          IF a.raises THEN ReturnBrief(ErrorResult(SynthesisError))
          ELSE /\ response' = a
               /\ pc' = "extract"
               /\ UNCHANGED << dates, tickers, verification, prompt, sources,
                               brief_data >>
    /\ UNCHANGED << env, entry >>

(* the extraction of the grounding sources *)
ExtractSources ==
    /\ pc = "extract"
    /\ LET out == extract_sources(response) IN
       IF out.raised THEN ReturnBrief(ErrorResult(SourcesError))
       ELSE /\ sources' = out.value
            /\ pc' = "assemble"
            /\ UNCHANGED << dates, tickers, verification, prompt, response, brief_data >>
    /\ UNCHANGED << env, entry, calls >>

(* return {'status': 'success', ...} *)
Assemble ==
    /\ pc = "assemble"
    /\ ReturnBrief(Brief("success", "", "report", sources, display_date, target_date))
    /\ UNCHANGED << env, entry, calls >>

(* storage_result = save_to_cloud_storage(brief_data) *)
Publish ==
    /\ pc = "returned"
    /\ should_publish(brief_data)
    /\ calls' = [calls EXCEPT !.storage = @ + 1]
    /\ \E write_ok \in BOOLEAN :
          LET out == save_to_cloud_storage(brief_data, write_ok) IN
          IF out.raised
          THEN /\ http_response' = Unhandled
               /\ pc' = "done"
               /\ UNCHANGED << storage_result, brief_data >>
          ELSE /\ storage_result' = out.value
               /\ brief_data' = [brief_data EXCEPT !.storage = out.value]
               /\ pc' = "stored"
               /\ UNCHANGED http_response
    /\ UNCHANGED << env, dates, tickers, verification, synthesis >>

(* the response is built from brief_data *)
Respond ==
    /\ \/ pc = "stored"
       \/ pc = "returned" /\ ~should_publish(brief_data)
    /\ http_response' = http_result(brief_data)
    /\ pc' = "done"
    /\ UNCHANGED << env, dates, tickers, verification, synthesis, brief_data,
                    storage_result, calls >>

Next ==
    \/ Tick
    \/ Invoke
    \/ ReadTargetDate
    \/ ReadDisplayDate
    \/ Discover
    \/ FetchTicker
    \/ FilterMovers
    \/ BuildPrompt
    \/ Synthesize
    \/ ExtractSources
    \/ Assemble
    \/ Publish
    \/ Respond

Spec == Init /\ [][Next]_vars

----------------------------------------------------------------------------
(* The date helpers applied to every reference instant *)

ExplicitDates == (FirstDay + 1) .. (FirstDay + NumExplicitDates)

Idle ==
    /\ ticks = 0
    /\ api_key = TRUE
    /\ target_date = NoString
    /\ display_date = NoString
    /\ tickers = NoJson
    /\ idx = 0
    /\ data = NoData
    /\ verified_movers = << >>
    /\ mega_cap_movers = << >>
    /\ finnhub_log = << >>
    /\ prompt = NoPrompt
    /\ response = NoResponse
    /\ sources = << >>
    /\ brief_data = NoBrief
    /\ storage_result = NoStorage
    /\ http_response = NoHttp
    /\ calls = NoCalls

InitDate ==
    /\ clock \in Days
    /\ date_arg \in {NoDate} \cup ExplicitDates
    /\ pc = "date"
    /\ Idle

CallPreviousTradingDay ==
    /\ pc = "date"
    /\ target_date = NoString
    /\ target_date' = get_previous_trading_day_str(date_arg, clock)
    /\ UNCHANGED << env, pc, display_date, tickers, verification, synthesis, brief_data,
                    entry, calls >>

CallFormattedDate ==
    /\ pc = "date"
    /\ display_date = NoString
    /\ display_date' = get_formatted_date(date_arg, clock)
    /\ UNCHANGED << env, pc, target_date, tickers, verification, synthesis, brief_data,
                    entry, calls >>

NextDate == CallPreviousTradingDay \/ CallFormattedDate

SpecDate == InitDate /\ [][NextDate]_vars

----------------------------------------------------------------------------
(* fetch_finnhub_metrics applied to every answer of the market-data service *)

InitFetch ==
    /\ clock = FirstDay
    /\ date_arg = NoDate
    /\ pc = "fetch"
    /\ Idle

CallFetch ==
    /\ pc = "fetch"
    /\ \E ticker \in Tickers, r \in FinnhubAnswers :
          /\ data' = fetch_finnhub_metrics(ticker, r)
          /\ finnhub_log' = << [ticker |-> ticker, answer |-> r] >>
    /\ calls' = [calls EXCEPT !.finnhub = @ + 1]
    /\ pc' = "fetched"
    /\ UNCHANGED << env, dates, tickers, idx, verified_movers, mega_cap_movers,
                    synthesis, brief_data, entry >>

NextFetch == CallFetch

SpecFetch == InitFetch /\ [][NextFetch]_vars

----------------------------------------------------------------------------
(* Properties *)

Instant == IF date_arg = NoDate THEN clock ELSE date_arg

DayName(n) == WeekdayName[weekday(n) + 1]

RuleOffset(n) ==
    IF DayName(n) = "Monday" THEN 3 ELSE IF DayName(n) = "Sunday" THEN 2 ELSE 1

LatestAnswer == finnhub_log[Len(finnhub_log)].answer

BothPresent(r) == r.marketCapitalization.k = "num" /\ r.dp.k = "num"

MeetsRule(r) ==
    /\ r.marketCapitalization.v >= Hundredths(MEGA_CAP_MILLIONS)
    /\ Abs(r.dp.v) >= Hundredths(MIN_MOVE_PERCENT)

(* C1: every quote fetch_finnhub_metrics returns for an answer with both   *)
(* fields present carries the two fields unchanged and a flag that is true *)
(* exactly when marketCap >= 200000 and abs(priceChange) >= 2.0, both      *)
(* bounds included.                                                        *)
C1_MegaCapFlagRule ==
    (pc = "fetched" /\ data.value # None /\ BothPresent(LatestAnswer)) =>
        /\ data.value[1].marketCap = LatestAnswer.marketCapitalization
        /\ data.value[1].priceChange = LatestAnswer.dp
        /\ data.value[1].isMegaCapMover = MeetsRule(LatestAnswer)

C1_Witness ==
    /\ pc = "fetched"
    /\ data.value # None
    /\ LatestAnswer.marketCapitalization = Num(Hundredths(MEGA_CAP_MILLIONS))
    /\ LatestAnswer.dp = Num(-Hundredths(MIN_MOVE_PERCENT))
    /\ data.value[1].isMegaCapMover

(* C2: the previous trading day of an instant is the instant minus 3 days  *)
(* on a Monday, minus 2 days on a Sunday and minus 1 day otherwise; it is  *)
(* never a Saturday or a Sunday and is 1 to 3 days before the instant.     *)
C2_PreviousTradingDayRule ==
    (pc = "date" /\ target_date # NoString) =>
        /\ target_date = strftime_long(Instant - RuleOffset(Instant))
        /\ target_date[1] \notin {"Saturday", "Sunday"}
        /\ \E k \in 1..3 : target_date = strftime_long(Instant - k)

C2_Witness ==
    /\ pc = "date"
    /\ DayName(Instant) = "Monday"
    /\ target_date # NoString
    /\ target_date[1] = "Friday"
    /\ target_date = strftime_long(Instant - 3)

Qualifies(e) ==
    LET r == e.answer IN
    /\ ~r.quote_raises
    /\ ~r.profile_raises
    /\ Truthy(r.c)
    /\ BothPresent(r)
    /\ MeetsRule(r)

(* C4: after the verification step every position of the ticker list has   *)
(* been looked up once, in order, and mega_cap_movers is the subsequence   *)
(* of the positions whose own answer qualifies, duplicates kept; no answer *)
(* aborts the batch.                                                       *)
C4_BatchSubsequence ==
    /\ brief_data.error # FetchError
    /\ pc = "synthesis" =>
          LET expected == SelectSeq(finnhub_log, Qualifies) IN
          /\ Len(finnhub_log) = Len(tickers.items)
          /\ \A i \in 1..Len(finnhub_log) : finnhub_log[i].ticker = tickers.items[i]
          /\ Len(mega_cap_movers) = Len(expected)
          /\ \A j \in 1..Len(expected) :
                /\ mega_cap_movers[j].ticker = expected[j].ticker
                /\ mega_cap_movers[j].marketCap = expected[j].answer.marketCapitalization
                /\ mega_cap_movers[j].priceChange = expected[j].answer.dp

C4_Witness ==
    /\ pc = "synthesis"
    /\ tickers = Json("list", << "A", "B" >>)
    /\ finnhub_log[1].answer = QuoteRaises
    /\ Qualifies(finnhub_log[2])
    /\ Len(mega_cap_movers) = 1
    /\ mega_cap_movers[1].ticker = "B"

FatalErrors == {ApiKeyError, ParseError, NotIterableError, DiscoveryError, SynthesisError}

(* C5: the storage publisher is called once when the orchestrator's result *)
(* is a success and never when it is an error; every fatal failure ends in *)
(* HTTP 500 carrying the error message, with no call to the publisher.     *)
C5_PublishOnlyOnSuccess ==
    /\ calls.storage <= 1
    /\ calls.storage = 1 => brief_data.status = "success"
    /\ pc = "done" =>
          /\ brief_data.status \in {"success", "error"}
          /\ brief_data.status = "success" => calls.storage = 1
          /\ brief_data.status = "error" =>
                /\ brief_data.error \in FatalErrors
                /\ calls.storage = 0
                /\ http_response.code = 500
                /\ http_response.message = brief_data.error
                /\ http_response.storage = NoStorage

C5_Witness ==
    /\ pc = "done"
    /\ brief_data.error = ParseError
    /\ http_response.code = 500
    /\ http_response.message = ParseError
    /\ calls.discovery = 1
    /\ calls.storage = 0

(* C6: a failed object-store write is returned as success false with an    *)
(* error, not raised; the answer is still HTTP 200 with status success and *)
(* carries that storage outcome; a success is always answered with 200.    *)
C6_StorageFailureIsNotFatal ==
    /\ http_response.status # "unhandled"
    /\ (storage_result.present /\ ~storage_result.success) =>
          /\ storage_result.error # ""
          /\ brief_data.status = "success"
    /\ pc = "done" =>
          /\ brief_data.status = "success" =>
                /\ http_response.code = 200
                /\ http_response.status = "success"
                /\ http_response.storage = storage_result
                /\ storage_result.present

C6_Witness ==
    /\ pc = "done"
    /\ calls.storage = 1
    /\ storage_result.present
    /\ ~storage_result.success
    /\ http_response.code = 200
    /\ http_response.status = "success"
    /\ ~http_response.storage.success

(* C7 as stated: when the parsed discovery answer is not a list of ticker  *)
(* strings, no ticker is sent to the market-data service and no synthesis  *)
(* request is made.                                                        *)
C7_NonListAborts ==
    tickers.kind \notin {"unset", "list"} => (calls.finnhub = 0 /\ calls.synthesis = 0)

WebChunk(c) == c.kind = "web"

WellFormed(md) ==
    md.kind = "chunks" /\ \A i \in 1..Len(md.chunks) : md.chunks[i].kind # "unhashable"

LastTitle(chunks, uri) ==
    LET last == CHOOSE i \in 1..Len(chunks) :
                    /\ chunks[i].uri = uri
                    /\ \A j \in (i + 1)..Len(chunks) : chunks[j].uri # uri
    IN  chunks[last].title

NoDuplicateUri(list) ==
    \A i, j \in 1..Len(list) : list[i].uri = list[j].uri => i = j

(* C8: the extracted sources hold every uri of a chunk with web.uri and    *)
(* web.title exactly once, with the title of the last such chunk; missing  *)
(* or malformed metadata gives the empty list and no error result.         *)
C8_SourcesDeduplicated ==
    /\ brief_data.error # SourcesError
    /\ NoDuplicateUri(brief_data.sources)
    /\ pc = "assemble" =>
          LET md == response.metadata
              web == SelectSeq(md.chunks, WebChunk)
          IN  /\ NoDuplicateUri(sources)
              /\ IF WellFormed(md)
                 THEN /\ { sources[i].uri : i \in 1..Len(sources) }
                            = { web[i].uri : i \in 1..Len(web) }
                      /\ \A i \in 1..Len(sources) :
                            sources[i].title = LastTitle(web, sources[i].uri)
                 ELSE sources = << >>

C8_Witness ==
    /\ pc = "assemble"
    /\ response.metadata.chunks = << Chunk("web", "u1", "t1"), Chunk("web", "u1", "t2") >>
    /\ sources = << Entry("u1", "t2") >>

DayDigits(d) == IF d < 10 THEN << DigitOf(d) >> ELSE << DigitOf(d \div 10), DigitOf(d % 10) >>

(* "<Weekday>, <Month> <Day>, <Year>" with the day number not padded *)
LongDate(n) ==
    LET f == ord2ymd(n) IN
    << DayName(n), ", ", MonthName[f.month], " " >> \o DayDigits(f.day) \o
    << ", ", DigitOf(f.year \div 1000), DigitOf((f.year \div 100) % 10),
       DigitOf((f.year \div 10) % 10), DigitOf(f.year % 10) >>

(* C9 as stated: both date helpers render the full weekday and month names *)
(* and the day number without zero padding.                                *)
C9_DayNotPadded ==
    pc = "date" =>
        /\ display_date # NoString => display_date = LongDate(Instant)
        /\ target_date # NoString =>
              target_date = LongDate(previous_trading_day(Instant))

(* C10 as stated: in every success result targetDate is the previous       *)
(* trading day of the date displayDate shows.                              *)
C10_TargetFollowsDisplay ==
    brief_data.status = "success" =>
        \E n \in FirstDay .. (FirstDay + NumStartDays + MaxTicks) :
            /\ brief_data.displayDate = strftime_long(n)
            /\ brief_data.targetDate = strftime_long(n - RuleOffset(n))

====
